---- MODULE Spec2Model ----
(***************************************************************************)
(* The I2S four-line export decoder of src/pd.py (class Decoder) as a      *)
(* state machine.  One step of the model is one call of metadata(), the    *)
(* entry of decode(), one iteration of decode()'s sample loop, or the      *)
(* return of decode().                                                     *)
(*                                                                         *)
(* The append-only sinks (the three libsigrokdecode output streams and     *)
(* the eight PCM files) are kept as what the last step appended            *)
(* (out_python, out_ann, out_binary, written, and puts for their order)     *)
(* together with running totals (nData, nWarn, nHeader, fout) and the end  *)
(* sample and channel of the latest DATA record (last_es, last_chan).      *)
(***************************************************************************)
EXTENDS Integers, Sequences, FiniteSets, TLC

VARIABLES
    word_length,        \* self.options['word_length']
    samplerate,         \* self.samplerate
    oldsck,             \* self.oldsck
    oldws,              \* self.oldws
    bitcount,           \* self.bitcount
    data_all,           \* self.data_all, a 4-tuple
    samplesreceived,    \* self.samplesreceived
    first_sample,       \* self.first_sample
    ss_block,           \* self.ss_block
    wordlength,         \* self.wordlength
    wrote_wav_header,   \* self.wrote_wav_header
    samplenum,          \* self.samplenum, the index of the last sample taken
    fout,               \* number of integers written to each of self.fout[0..7]
    pc,                 \* "idle" | "loop" (inside decode) | "raised"
    exc,                \* the exception that left decode(), or "none"
    out_python,         \* OUTPUT_PYTHON records put by the last step
    out_ann,            \* OUTPUT_ANN records put by the last step
    out_binary,         \* OUTPUT_BINARY records put by the last step
    written,            \* <<file index, pack width, integer>> written by the last step,
                        \* the integer as <<high part, low 16 bits>>
    puts,               \* the sinks the last step put to, in the order of the puts
    last_es,            \* the end sample of the latest DATA record, None before it
    last_chan,          \* the channel of the latest DATA record, "" before it
    nData,              \* total of DATA records put so far
    nWarn,              \* total of class-2 annotations put so far
    nHeader,            \* total of binary header blobs put so far
    nBoundary,          \* rising edges seen so far on which ws differed from oldws
    edges,              \* rising clock edges seen so far
    bits,               \* the data-line samples of the rising edges since the last boundary
    closed,             \* the data-line samples of the block the last step closed
    phase               \* where the word-select square wave of SpecPattern starts

vars == <<word_length, samplerate, oldsck, oldws, bitcount, data_all,
          samplesreceived, first_sample, ss_block, wordlength, wrote_wav_header,
          samplenum, fout, pc, exc, out_python, out_ann, out_binary, written,
          puts, last_es, last_chan, nData, nWarn, nHeader, nBoundary, edges, bits, closed, phase>>

-----------------------------------------------------------------------------
(* Bounds of the exploration. *)

\* samples fed under Spec (any clock, any word-select, any data)
MaxSamples == 6
\* samples fed under SpecWord (clock toggling on every sample)
MaxWordSamples == 30
\* samples fed under SpecFlip
MaxFlipSamples == 12

-----------------------------------------------------------------------------
(* Values. *)

\* Python's None, for samplerate, first_sample and ss_block
None == -1

Bit == {0, 1}

\* the word lengths save_data has a packing for
WordLengths == {12, 16, 20, 24, 32}

\* the default of the word_length option
DefaultWordLength == 16

\* the shortest word length save_data has a packing for
ShortestWordLength == 12

\* every value of the four data lines on one sample
SdAll == Bit \X Bit \X Bit \X Bit

\* the data-line values fed under SpecWord
SdWord == {<<0, 0, 0, 0>>, <<1, 0, 1, 1>>}

Zero4 == <<0, 0, 0, 0>>

\* the names of the files behind self.fout[0..7]
FoutName == [i \in 0..7 |->
               CASE i = 0 -> "ch0L.pcm" [] i = 1 -> "ch0R.pcm"
                 [] i = 2 -> "ch1L.pcm" [] i = 3 -> "ch1R.pcm"
                 [] i = 4 -> "ch2L.pcm" [] i = 5 -> "ch2R.pcm"
                 [] i = 6 -> "ch3L.pcm" [] i = 7 -> "ch3R.pcm"]

-----------------------------------------------------------------------------
(* The pieces of decode() and save_data(). *)

\* a samplerate test that lets a zero rate through
NoSamplerateNoneOnly(rate) == rate = None

\* "if not self.samplerate"
NoSamplerate(rate) == rate = None \/ rate = 0

\* an edge filter that lets every sample through
ClockChangedAlways(sck, old) == TRUE

\* "if sck == self.oldsck: continue"
ClockChanged(sck, old) == sck # old

\* an edge test that takes the falling edge too
IsRisingAny(sck) == TRUE

\* "if sck == 0: continue"
IsRising(sck) == sck # 0

\* a word-select test that sees a flip on every rising edge
WsFlippedAlways(ws, old) == TRUE

\* "if ws == self.oldws: continue"
WsFlipped(ws, old) == ws # old

\* a header test that forgets the header was written
NeedHeaderAlways(wrote) == TRUE

\* "if not self.wrote_wav_header"
NeedHeader(wrote) == ~wrote

\* a first-sample test that overwrites the saved position on every boundary
FirstSampleUnsetAlways(fs) == TRUE

\* "if self.first_sample is None"
FirstSampleUnset(fs) == fs = None

\* a reset that keeps the old word-select
StoredWsStale(ws, old) == old

\* "self.oldws = ws"
StoredWs(ws, old) == ws

\* faulty variant: the guard taken one edge early
OverrunOffByOne(count, wl) == count + 1 >= wl

\* "if self.bitcount >= self.options['word_length']: sd0,sd1,sd2,sd3 = 0,0,0,0"
Overrun(count, wl) == count >= wl

GuardedBits(count, wl, sd) == IF Overrun(count, wl) THEN Zero4 ELSE sd

\* faulty variant: the shift without the or
ShiftInDropsBit(acc, b) == acc * 2

\* "(self.data_all[i] << 1) | sd": the shifted value has bit 0 clear
ShiftIn(acc, b) == acc * 2 + b

ShiftAll(acc, sd) == [i \in 1..4 |-> ShiftIn(acc[i], sd[i])]

\* faulty variant: the test for an open block left out
BlockOpenAlways(ss) == TRUE

\* "if self.ss_block is not None"
BlockOpen(ss) == ss # None

\* "idx = 0 if self.oldws else 1"
AnnClass(ows) == IF ows # 0 THEN 0 ELSE 1

\* faulty variant: the tags the other way round
ChannelTagSwapped(ows) == IF ows # 0 THEN "R" ELSE "L"

\* "c3 = 'L' if self.oldws else 'R'"
ChannelTag(ows) == IF ows # 0 THEN "L" ELSE "R"

\* faulty variant: the test for the -1 sentinel left out
LengthMismatchNoSentinel(last, count) == last # count

\* "if self.wordlength != -1 and self.wordlength != self.bitcount"
LengthMismatch(last, count) == last # -1 /\ last # count

\* the pack_config_string of save_data as a width in bits; 0: no branch assigns it
PackWidth(wl) ==
    IF wl = 12 THEN 16
    ELSE IF wl = 16 THEN 16
    ELSE IF wl = 20 THEN 32
    ELSE IF wl = 24 THEN 32
    ELSE IF wl = 32 THEN 32
    ELSE 0

\* faulty variant: the shifts of 20 and 24 exchanged
ShiftConfigExchanged(wl) ==
    IF wl = 12 THEN 4
    ELSE IF wl = 16 THEN 0
    ELSE IF wl = 20 THEN 8
    ELSE IF wl = 24 THEN 12
    ELSE 0

\* the shift_config of save_data
ShiftConfig(wl) ==
    IF wl = 12 THEN 4
    ELSE IF wl = 16 THEN 0
    ELSE IF wl = 20 THEN 12
    ELSE IF wl = 24 THEN 8
    ELSE 0

\* "data << shift_config" as <<high part, low 16 bits>>: the integer is
\* high * 65536 + low, which may pass 2^31 (shift_config is at most 16)
Shifted(v, wl) ==
    <<v \div (2 ^ (16 - ShiftConfig(wl))),
      (v % (2 ^ (16 - ShiftConfig(wl)))) * (2 ^ ShiftConfig(wl))>>

\* struct.pack("H" | "I", x) takes 0 <= x < 2^width and raises struct.error otherwise
\* (x < 2^width, on the high part of x: the width is 16 or 32)
Packs(x, width) == 0 <= x[1] /\ x[1] < 2 ^ (width - 16)

\* "self.fout[2*line + ws]", line in 0..3
FoutIndex(line, ws) == 2 * line + ws

\* the first of the four writes of save_data that raises; 5 when none does
FirstFailing(vals, wl) ==
    IF PackWidth(wl) = 0 THEN 1
    ELSE IF \E i \in 1..4 : ~Packs(Shifted(vals[i], wl), PackWidth(wl))
         THEN CHOOSE i \in 1..4 :
                /\ ~Packs(Shifted(vals[i], wl), PackWidth(wl))
                /\ \A j \in 1..(i - 1) : Packs(Shifted(vals[j], wl), PackWidth(wl))
         ELSE 5

\* save_data(ws, data0..data3): the writes made, in order, up to the first that raises
SaveData(ws, vals, wl) ==
    [i \in 1..(FirstFailing(vals, wl) - 1) |->
        <<FoutIndex(i - 1, ws), PackWidth(wl), Shifted(vals[i], wl)>>]

SaveDataRaises(vals, wl) == FirstFailing(vals, wl) <= 4

SaveDataError(wl) == IF PackWidth(wl) = 0 THEN "UnboundLocalError" ELSE "struct.error"

-----------------------------------------------------------------------------
(* Decoder.__init__ *)

InitDecoder ==
    /\ samplerate = None
    /\ oldsck = 1
    /\ oldws = 1
    /\ bitcount = 0
    /\ data_all = Zero4
    /\ samplesreceived = 0
    /\ first_sample = None
    /\ ss_block = None
    /\ wordlength = -1
    /\ wrote_wav_header = FALSE
    /\ samplenum = -1
    /\ fout = [i \in 0..7 |-> 0]
    /\ pc = "idle"
    /\ exc = "none"
    /\ out_python = <<>>
    /\ out_ann = <<>>
    /\ out_binary = <<>>
    /\ written = <<>>
    /\ puts = <<>>
    /\ last_es = None
    /\ last_chan = ""
    /\ nData = 0
    /\ nWarn = 0
    /\ nHeader = 0
    /\ nBoundary = 0
    /\ edges = 0
    /\ bits = <<>>
    /\ closed = <<>>

Init ==
    /\ InitDecoder
    /\ word_length \in WordLengths
    /\ phase = 0

NoOutput ==
    /\ out_python' = <<>>
    /\ out_ann' = <<>>
    /\ out_binary' = <<>>
    /\ written' = <<>>
    /\ puts' = <<>>
    /\ closed' = <<>>

DecoderUnchanged ==
    UNCHANGED <<word_length, oldsck, oldws, bitcount, data_all, samplesreceived,
                first_sample, ss_block, wordlength, wrote_wav_header, samplenum,
                fout, last_es, last_chan, nData, nWarn, nHeader, nBoundary, edges,
                bits, phase>>

(* Decoder.metadata(key, value) *)
Metadata(key, value) ==
    /\ pc = "idle"
    /\ samplerate' = IF key = "SRD_CONF_SAMPLERATE" THEN value ELSE samplerate
    /\ NoOutput
    /\ DecoderUnchanged
    /\ UNCHANGED <<pc, exc>>

(* decode(): the samplerate test before the loop *)
DecodeCall ==
    /\ pc = "idle"
    /\ IF NoSamplerate(samplerate)
       THEN pc' = "raised" /\ exc' = "SamplerateError"
       ELSE pc' = "loop" /\ exc' = exc
    /\ NoOutput
    /\ DecoderUnchanged
    /\ UNCHANGED samplerate

(* decode(): the sample iterator is exhausted *)
DecodeReturn ==
    /\ pc = "loop"
    /\ pc' = "idle"
    /\ NoOutput
    /\ DecoderUnchanged
    /\ UNCHANGED <<samplerate, exc>>

(* decode(): one iteration of the loop, on the sample (sck, ws, sd) *)
DecodeSample(sck, ws, sd) ==
    LET changed  == ClockChanged(sck, oldsck)
        rising   == changed /\ IsRising(sck)
        acc      == ShiftAll(data_all, GuardedBits(bitcount, word_length, sd))
        count    == bitcount + 1
        boundary == rising /\ WsFlipped(ws, oldws)
        emit     == boundary /\ BlockOpen(ss_block)
        header   == emit /\ NeedHeader(wrote_wav_header)
        \* the sample as the claims speak of it
        sawEdge  == sck # oldsck /\ sck = 1
        sawFlip  == sawEdge /\ ws # oldws
        writes   == SaveData(oldws, acc, word_length)
        raises   == emit /\ SaveDataRaises(acc, word_length)
        checked  == emit /\ ~raises
        warn     == checked /\ LengthMismatch(wordlength, count)
        reset    == boundary /\ ~raises
    IN  /\ pc = "loop"
        /\ samplenum' = samplenum + 1
        /\ oldsck' = IF changed THEN sck ELSE oldsck
        /\ data_all' = IF reset THEN Zero4 ELSE IF rising THEN acc ELSE data_all
        /\ bitcount' = IF reset THEN 0 ELSE IF rising THEN count ELSE bitcount
        /\ wrote_wav_header' = (wrote_wav_header \/ header)
        /\ samplesreceived' = IF emit THEN samplesreceived + 1 ELSE samplesreceived
        /\ wordlength' = IF checked THEN count ELSE wordlength
        /\ ss_block' = IF reset THEN samplenum' ELSE ss_block
        /\ first_sample' = IF reset /\ FirstSampleUnset(first_sample) THEN samplenum'
                           ELSE first_sample
        /\ oldws' = IF reset THEN StoredWs(ws, oldws) ELSE oldws
        /\ out_binary' = IF header THEN <<[ss |-> 0, es |-> 0, cls |-> 0]>> ELSE <<>>
        /\ out_python' =
             IF emit
             THEN <<[ss |-> ss_block, es |-> samplenum', ptype |-> "DATA",
                     channel |-> ChannelTag(oldws), values |-> acc]>>
             ELSE <<>>
        /\ out_ann' =
             (IF emit
              THEN <<[ss |-> ss_block, es |-> samplenum', cls |-> AnnClass(oldws),
                      channel |-> ChannelTag(oldws), values |-> acc,
                      received |-> 0, expected |-> 0]>>
              ELSE <<>>)
             \o
             (IF warn
              THEN <<[ss |-> ss_block, es |-> samplenum', cls |-> 2,
                      channel |-> "", values |-> Zero4,
                      received |-> count, expected |-> wordlength]>>
              ELSE <<>>)
        /\ written' = IF emit THEN writes ELSE <<>>
        /\ puts' = (IF header THEN <<"binary">> ELSE <<>>)
                    \o (IF emit THEN <<"python", "ann">> ELSE <<>>)
                    \o (IF emit THEN [k \in 1..Len(writes) |-> "file"] ELSE <<>>)
                    \o (IF warn THEN <<"ann">> ELSE <<>>)
        /\ last_es' = IF emit THEN samplenum' ELSE last_es
        /\ last_chan' = IF emit THEN ChannelTag(oldws) ELSE last_chan
        /\ fout' = IF emit
                   THEN [i \in 0..7 |->
                           fout[i] + Cardinality({k \in 1..Len(writes) : writes[k][1] = i})]
                   ELSE fout
        /\ pc' = IF raises THEN "raised" ELSE pc
        /\ exc' = IF raises THEN SaveDataError(word_length) ELSE exc
        /\ nData' = IF emit THEN nData + 1 ELSE nData
        /\ nWarn' = IF warn THEN nWarn + 1 ELSE nWarn
        /\ nHeader' = IF header THEN nHeader + 1 ELSE nHeader
        /\ nBoundary' = IF sawFlip THEN nBoundary + 1 ELSE nBoundary
        /\ edges' = IF sawEdge THEN edges + 1 ELSE edges
        /\ bits' = IF sawFlip /\ ~raises THEN <<>>
                   ELSE IF sawEdge THEN Append(bits, sd) ELSE bits
        /\ closed' = IF sawFlip THEN Append(bits, sd) ELSE <<>>
        /\ UNCHANGED <<word_length, samplerate, phase>>

-----------------------------------------------------------------------------
(* Spec: any sequence of metadata and decode calls, any samples. *)

Feed ==
    /\ samplenum + 1 < MaxSamples
    /\ \E sck \in Bit, ws \in Bit, sd \in SdAll : DecodeSample(sck, ws, sd)

Next ==
    \/ \E key \in {"SRD_CONF_SAMPLERATE", "other"}, value \in {0, 16000} :
          Metadata(key, value)
    \/ DecodeCall
    \/ Feed
    \/ DecodeReturn

Spec == Init /\ [][Next]_vars

-----------------------------------------------------------------------------
(* SpecWord: one decode call on a running bit clock (the clock toggles on    *)
(* every sample) with word_length 12.  Word-select may differ from the      *)
(* stored one on the first two clock pulses (start-up, which can open a     *)
(* block and emit a one-bit word) and from the twelfth pulse of a block on, *)
(* so that the words that follow are complete or overrun.                   *)

InitWord ==
    /\ InitDecoder
    /\ word_length = ShortestWordLength
    /\ phase = 0

SetRate ==
    /\ samplerate = None
    /\ Metadata("SRD_CONF_SAMPLERATE", 16000)

FeedWord ==
    /\ samplenum + 1 < MaxWordSamples
    /\ \E ws \in Bit, sd \in SdWord :
          /\ (ws # oldws) => (edges < 2 \/ bitcount + 1 >= word_length)
          /\ DecodeSample(1 - oldsck, ws, sd)

NextWord ==
    \/ SetRate
    \/ DecodeCall
    \/ FeedWord

SpecWord == InitWord /\ [][NextWord]_vars

-----------------------------------------------------------------------------
(* SpecFlip: word_length 16, a running bit clock, and a word-select that    *)
(* differs on every rising edge from its value on the rising edge before    *)
(* (its value on the first rising edge is free); any data.                  *)

InitFlip ==
    /\ InitDecoder
    /\ word_length = DefaultWordLength
    /\ phase = 0

FeedFlip ==
    /\ samplenum + 1 < MaxFlipSamples
    /\ \E ws \in Bit, sd \in SdAll :
          /\ edges > 0 => ws = 1 - oldws
          /\ DecodeSample(1 - oldsck, ws, sd)

NextFlip ==
    \/ SetRate
    \/ DecodeCall
    \/ FeedFlip

SpecFlip == InitFlip /\ [][NextFlip]_vars

-----------------------------------------------------------------------------
(* SpecPattern: word_length 16, a running bit clock of 32 rising pulses,    *)
(* all four data lines carrying 1010...10 (1 on the odd pulses), and a      *)
(* word-select square wave that toggles every 16 pulses.  phase says where  *)
(* in the square wave pulse 1 falls: with phase in 0..15 word-select is 1   *)
(* on pulse 1 and first toggles on pulse 17 - phase, with phase in 16..31   *)
(* it is 0 on pulse 1 and first toggles on pulse 33 - phase.                *)

PatternPulses == 2 * DefaultWordLength

PatternWs(pulse, ph) ==
    IF ((pulse - 1 + ph) \div DefaultWordLength) % 2 = 0 THEN 1 ELSE 0

PatternSd(pulse) == [i \in 1..4 |-> pulse % 2]

InitPattern ==
    /\ InitDecoder
    /\ word_length = DefaultWordLength
    /\ phase \in 0..(PatternPulses - 1)

FeedPattern ==
    /\ edges < PatternPulses
    /\ DecodeSample(1 - oldsck, PatternWs(edges + 1, phase), PatternSd(edges + 1))

NextPattern ==
    \/ SetRate
    \/ DecodeCall
    \/ FeedPattern

SpecPattern == InitPattern /\ [][NextPattern]_vars

-----------------------------------------------------------------------------
(* SpecPack: save_data on complete words.  The decoder is taken where it    *)
(* stands before the last bit of the first word: the block was opened on    *)
(* sample 1 (word-select 0), word_length - 1 rising edges followed on the   *)
(* odd samples, and the clock fell on sample 2 * word_length.  The one step *)
(* is the rising edge that closes the word, with any last bits.  The four   *)
(* lines hold p, top - p, 0 and top, p ranging over the powers of two and   *)
(* their predecessors.  A word of 32 bits is taken with its first bit       *)
(* clear: the accumulators are integers below 2^31 here.                    *)

\* the largest value of the bits before the last one
PartialTop(wl) == IF wl = 32 THEN 2 ^ 30 - 1 ELSE 2 ^ (wl - 1) - 1

PartialBits(wl) == IF wl = 32 THEN 30 ELSE wl - 1

PackPartials(wl) ==
    {2 ^ k : k \in 0..(PartialBits(wl) - 1)} \cup {2 ^ k - 1 : k \in 0..PartialBits(wl)}

\* the samples that shifted the value acc[i] into line i over n rising edges
BitsOf(acc, n) ==
    [k \in 1..n |-> [i \in 1..4 |-> (acc[i] \div (2 ^ (n - k))) % 2]]

InitPack ==
    /\ word_length \in WordLengths
    /\ \E p \in PackPartials(word_length) :
          data_all = <<p, PartialTop(word_length) - p, 0, PartialTop(word_length)>>
    /\ bits = BitsOf(data_all, word_length - 1)
    /\ bitcount = word_length - 1
    /\ samplenum = 2 * word_length
    /\ edges = word_length
    /\ samplerate = 16000
    /\ pc = "loop"
    /\ oldsck = 0
    /\ oldws = 0
    /\ ss_block = 1
    /\ first_sample = 1
    /\ nBoundary = 1
    /\ samplesreceived = 0
    /\ wordlength = -1
    /\ wrote_wav_header = FALSE
    /\ fout = [i \in 0..7 |-> 0]
    /\ exc = "none"
    /\ out_python = <<>>
    /\ out_ann = <<>>
    /\ out_binary = <<>>
    /\ written = <<>>
    /\ puts = <<>>
    /\ last_es = None
    /\ last_chan = ""
    /\ nData = 0
    /\ nWarn = 0
    /\ nHeader = 0
    /\ closed = <<>>
    /\ phase = 0

FeedPack ==
    /\ bitcount = word_length - 1
    /\ oldsck = 0
    /\ \E sd \in SdAll : DecodeSample(1, 1 - oldws, sd)

NextPack == FeedPack

SpecPack == InitPack /\ [][NextPack]_vars

-----------------------------------------------------------------------------
(* What the claims speak of. *)

\* a DATA record was put by the last step
Emitted == out_python # <<>>

\* the value of data line i of the samples seq, most significant bit first
RECURSIVE MsbFirst(_, _)
MsbFirst(seq, i) ==
    IF seq = <<>> THEN 0
    ELSE seq[1][i] * (2 ^ (Len(seq) - 1)) + MsbFirst(Tail(seq), i)

\* a class-2 annotation was put by the last step
Warned == \E k \in 1..Len(out_ann) : out_ann[k].cls = 2

\* the PCM file the claims name for data line n (0..3) and channel tag
PcmName(n, tag) ==
    IF tag = "L"
    THEN (CASE n = 0 -> "ch0L.pcm" [] n = 1 -> "ch1L.pcm"
            [] n = 2 -> "ch2L.pcm" [] n = 3 -> "ch3L.pcm")
    ELSE (CASE n = 0 -> "ch0R.pcm" [] n = 1 -> "ch1R.pcm"
            [] n = 2 -> "ch2R.pcm" [] n = 3 -> "ch3R.pcm")

-----------------------------------------------------------------------------
\* C1: the number of DATA records put so far is max(0, F - 1), F being the
\* number of rising clock edges so far on which word-select differed from the
\* stored word-select: the first boundary puts nothing, each later one puts one.
C1_DataRecordsCount ==
    nData = (IF nBoundary = 0 THEN 0 ELSE nBoundary - 1)

\* three boundaries seen, the third of which closed the second emitted word
C1_Witness == nBoundary = 3 /\ nData = 2 /\ Emitted

\* C2: a word closed after at most word_length rising edges carries, on each of
\* the four lines, the bits of that line sampled on those edges, most
\* significant bit first.
C2_ValueIsMsbFirstFold ==
    (Emitted /\ Len(closed) <= word_length) =>
        \A i \in 1..4 : out_python[1].values[i] = MsbFirst(closed, i)

\* a word of exactly word_length bits with its first and last bit set on line 0
C2_Witness ==
    /\ Emitted
    /\ Len(closed) = word_length
    /\ closed[1][1] = 1
    /\ closed[word_length][1] = 1
    /\ out_python[1].values[2] = 0

\* C3: a DATA record put on a boundary where the stored word-select before the
\* flip is 1 carries channel "L" and its annotation class 0; where it is 0,
\* channel "R" and class 1.
C3_ChannelConvention ==
    [][(out_python' # <<>>) =>
         /\ out_python'[1].channel = (IF oldws = 1 THEN "L" ELSE "R")
         /\ out_ann'[1].channel = out_python'[1].channel
         /\ out_ann'[1].cls = (IF oldws = 1 THEN 0 ELSE 1)]_vars

\* an "L" word was put, with the class-0 annotation
C3_Witness ==
    /\ Emitted
    /\ out_python[1].channel = "L"
    /\ out_ann[1].cls = 0

\* C4: a word put with channel "L" has the value of data line N written to
\* chNL.pcm, one put with "R" to chNR.pcm, and to no other stream: each word
\* put makes exactly four writes, one to each of the four streams of its tag.
C4_PcmRoutingMatchesTag ==
    Emitted =>
        /\ Len(written) = 4
        /\ \A k \in 1..Len(written) :
              FoutName[written[k][1]] = PcmName(k - 1, out_python[1].channel)

\* C5: the value put for a word that got more than word_length rising edges is
\* the value of its first word_length bits: the extra edges change nothing.
C5_OverrunKeepsValue ==
    (Emitted /\ Len(closed) > word_length) =>
        \A i \in 1..4 :
            out_python[1].values[i] = MsbFirst(SubSeq(closed, 1, word_length), i)

\* C6: bitcount stays between 0 and word_length.
C6_BitcountWithinWordLength ==
    0 <= bitcount /\ bitcount <= word_length

\* C7: with a sample rate set and a supported word_length, decode is never left
\* by an exception raised while a word is put.
C7_DecodeNeverAborts ==
    exc \notin {"struct.error", "UnboundLocalError"}

\* C8: when a word is put, a class-2 annotation "Received N-bit word, expected
\* M-bit word" is put iff a previous length is recorded and differs from the
\* word's bit count, with N the bit count and M the recorded length; afterwards
\* the recorded length is the word's bit count.
C8_LengthCheck ==
    [][(out_python' # <<>>) =>
         LET n    == bitcount + 1
             anns == out_ann'
             warn == {k \in 1..Len(anns) : anns[k].cls = 2}
         IN  /\ (warn # {}) <=> (wordlength # -1 /\ wordlength # n)
             /\ \A k \in warn : anns[k].received = n /\ anns[k].expected = wordlength
             /\ wordlength' = n]_vars

\* C9 as stated: under SpecFlip every word put has length 1, and every word put
\* after the first comes with a warning annotation.
C9_WarningOnEveryLaterWord ==
    Emitted => (Len(closed) = 1 /\ (nData >= 2 => Warned))

\* C9 as amended: under SpecFlip every rising edge after the one that opens the
\* block puts a word of length 1, and no warning annotation is ever put: each
\* word's length, 1, equals the length recorded for the word before.
C9_FlipNeverWarns ==
    /\ Emitted => (Len(closed) = 1 /\ wordlength = 1)
    /\ edges >= 2 => nData >= edges - 2
    /\ ~Warned
    /\ nWarn = 0

\* the third word of length 1 was put, with no warning
C9_Witness == Emitted /\ nData = 3 /\ Len(closed) = 1 /\ ~Warned

\* C10 as stated: under SpecPattern, after the 32 pulses exactly 2 words were
\* put, and every word put has the value 0xAAAA (43690) on all four lines.
C10_TwoWordsOfAAAA ==
    /\ Emitted => \A i \in 1..4 : out_python[1].values[i] = 43690
    /\ (edges = PatternPulses) => nData = 2

\* C10 as amended: under SpecPattern at most 2 words are put and at most one of
\* them is a full 16-bit word (a second word is put only after a truncated
\* first one, and with a warning); a 16-bit word has the same value on all four
\* lines, 0xAAAA (43690) or 0x5555 (21845); and with word-select flipping on
\* the 16th and the 32nd pulse (phase 1) exactly 1 word is put, on the 32nd
\* pulse, tagged "R", with 0xAAAA on all four lines: the first flip only opens
\* the block.
C10_OneWordOfAAAA ==
    /\ nData <= 2
    /\ (Emitted /\ Len(closed) = DefaultWordLength) =>
          \/ \A i \in 1..4 : out_python[1].values[i] = 43690
          \/ \A i \in 1..4 : out_python[1].values[i] = 21845
    /\ (Emitted /\ nData = 2) =>
          \E k \in 1..Len(out_ann) :
              /\ out_ann[k].cls = 2
              /\ out_ann[k].expected < DefaultWordLength
              /\ out_ann[k].received = DefaultWordLength
    /\ (phase = 1 /\ edges = PatternPulses) =>
          /\ nData = 1
          /\ Emitted
          /\ out_python[1].channel = "R"
          /\ \A i \in 1..4 : out_python[1].values[i] = 43690
    /\ (phase = 1 /\ edges < PatternPulses) => nData = 0

\* phase 1 after the 32 pulses: the one word, "R", 0xAAAA
C10_Witness ==
    /\ phase = 1
    /\ edges = PatternPulses
    /\ Emitted
    /\ nData = 1
    /\ out_python[1].values = <<43690, 43690, 43690, 43690>>

\* the pack width and shift the claim gives for a word length
ClaimedWidth(wl) ==
    CASE wl = 12 -> 16 [] wl = 16 -> 16 [] wl = 20 -> 32 [] wl = 24 -> 32 [] wl = 32 -> 32

ClaimedShift(wl) ==
    CASE wl = 12 -> 4 [] wl = 16 -> 0 [] wl = 20 -> 12 [] wl = 24 -> 8 [] wl = 32 -> 0

\* C11: for a complete word of word_length bits with value v on a line, the
\* integer x written for that line has the claimed pack width W and is v
\* left-justified by the claimed shift s: x < 2^W, x shifted right by s is v,
\* and the low s bits of x are zero (x is kept as <<high part, low 16 bits>>).
C11_LeftJustified ==
    (Emitted /\ Len(closed) = word_length) =>
        /\ Len(written) = 4
        /\ \A n \in 1..4 :
              LET v == out_python[1].values[n]
                  x == written[n][3]
                  W == ClaimedWidth(word_length)
                  sh == ClaimedShift(word_length)
              IN  /\ written[n][2] = W
                  /\ 0 <= x[2] /\ x[2] < 65536
                  /\ 0 <= x[1] /\ x[1] < 2 ^ (W - 16)
                  /\ x[1] * (2 ^ (16 - sh)) + (x[2] \div (2 ^ sh)) = v
                  /\ x[2] % (2 ^ sh) = 0

\* the largest 20-bit word on line 0, written as 0xFFFFF000
C11_Witness ==
    /\ Emitted
    /\ word_length = 20
    /\ Len(closed) = 20
    /\ out_python[1].values[1] = 2 ^ 20 - 1
    /\ written[1][3] = <<65535, 61440>>

-----------------------------------------------------------------------------
(* SpecOption: the decoder configured with each value its options entry
   declares, then any sequence of metadata and decode calls. *)

\* the 'values' tuple of the word_length option, (12,16,20,24.32), each value
\* as <<integer part, hundredths>>
OptionValues == {<<12, 0>>, <<16, 0>>, <<20, 0>>, <<24, 32>>}

\* the integer a value stands for where the code uses it: 'bitcount >= value'
\* on an integer bitcount holds from the value's ceiling on, and a value with
\* a fraction equals none of the integers save_data compares it with
AsCompared(v) == IF v[2] = 0 THEN v[1] ELSE v[1] + 1

InitOption ==
    /\ InitDecoder
    /\ word_length \in {AsCompared(v) : v \in OptionValues}
    /\ phase = 0

SpecOption == InitOption /\ [][Next]_vars

\* C12: a word_length outside {12,16,20,24,32} is rejected before any sample
\* is processed (the decoder never enters the sample loop with it), and it
\* never makes a word emission fail.
C12_UnsupportedRejectedEarly ==
    /\ (word_length \notin WordLengths) => (pc # "loop" /\ samplenum = -1)
    /\ exc # "UnboundLocalError"

-----------------------------------------------------------------------------
\* the fields of the decoder object
DecoderFields ==
    <<samplerate, oldsck, oldws, bitcount, data_all, samplesreceived, first_sample,
      ss_block, wordlength, wrote_wav_header, samplenum, fout>>

\* nothing was put or written by the step
NoOutputNext ==
    /\ out_python' = <<>>
    /\ out_ann' = <<>>
    /\ out_binary' = <<>>
    /\ written' = <<>>
    /\ UNCHANGED <<fout, nData, nWarn, nHeader>>

\* C13: a decode call made while the sample rate is missing or zero fails
\* with SamplerateError, consumes no sample, changes no decoder field and
\* emits nothing; a decode call made with a non-zero rate enters the sample
\* loop without failing, and samples are only ever processed with a rate.
C13_MissingRateIsHardFailure ==
    [][ /\ (pc = "idle" /\ pc' # "idle" /\ samplerate \in {None, 0}) =>
              /\ pc' = "raised"
              /\ exc' = "SamplerateError"
              /\ UNCHANGED DecoderFields
              /\ NoOutputNext
        /\ (pc = "idle" /\ pc' # "idle" /\ samplerate \notin {None, 0}) =>
              /\ pc' = "loop"
              /\ exc' = exc
        /\ (exc' = "SamplerateError" /\ exc # "SamplerateError") =>
              /\ pc = "idle"
              /\ samplerate \in {None, 0}
        /\ (samplenum' # samplenum) => samplerate \notin {None, 0}
      ]_vars

\* a second decode call fails after the rate was set back to zero, with the
\* first call's word still counted and its state intact
C13_Witness ==
    /\ exc = "SamplerateError"
    /\ samplerate = 0
    /\ nData = 1
    /\ samplenum = 3
    /\ ss_block = 3

-----------------------------------------------------------------------------
\* C14: the binary header is put at most once; whenever a DATA record or a
\* PCM sample exists the header exists, and the step that put the header put
\* it first, ahead of the first DATA record and of the first PCM write; while
\* no word was emitted the header is absent or the only output.
C14_HeaderOnceAndFirst ==
    /\ nHeader <= 1
    /\ (nData >= 1 \/ \E i \in 0..7 : fout[i] > 0) => nHeader = 1
    /\ (out_binary # <<>>) =>
          /\ Len(out_binary) = 1
          /\ out_binary[1].cls = 0
          /\ puts[1] = "binary"
          /\ \A k \in 2..Len(puts) : puts[k] # "binary"
          /\ nData = 1
          /\ \A i \in 0..7 : fout[i] = Cardinality({k \in 1..Len(written) : written[k][1] = i})
    /\ (nData = 0) => (nHeader = 0 \/ (nWarn = 0 /\ \A i \in 0..7 : fout[i] = 0))

\* a second word is emitted and the header count stays at one
C14_Witness ==
    /\ nData = 2
    /\ nHeader = 1
    /\ out_python # <<>>
    /\ out_binary = <<>>
    /\ wrote_wav_header

-----------------------------------------------------------------------------
(* SpecStill: the clock line holds one level, chosen at the start, over
   every sample of every decode call; word-select and data are free. *)

InitStill ==
    /\ InitDecoder
    /\ word_length \in WordLengths
    /\ phase \in Bit

\* phase is the level the clock line holds
FeedStill ==
    /\ samplenum + 1 < MaxSamples
    /\ \E ws \in Bit, sd \in SdAll : DecodeSample(phase, ws, sd)

NextStill ==
    \/ \E key \in {"SRD_CONF_SAMPLERATE", "other"}, value \in {0, 16000} :
          Metadata(key, value)
    \/ DecodeCall
    \/ FeedStill
    \/ DecodeReturn

SpecStill == InitStill /\ [][NextStill]_vars

\* C15: with a clock line that never toggles, bit_count, the accumulators,
\* block_start_sample, the stored word-select and samples_received keep
\* their initial values and nothing of any kind is emitted.
C15_StillClockDoesNothing ==
    /\ bitcount = 0
    /\ data_all = Zero4
    /\ ss_block = None
    /\ oldws = 1
    /\ samplesreceived = 0
    /\ first_sample = None
    /\ wordlength = -1
    /\ ~wrote_wav_header
    /\ out_python = <<>> /\ out_ann = <<>> /\ out_binary = <<>> /\ written = <<>>
    /\ nData = 0 /\ nWarn = 0 /\ nHeader = 0
    /\ \A i \in 0..7 : fout[i] = 0

\* five samples of a constant-0 clock were read
C15_Witness ==
    /\ phase = 0
    /\ oldsck = 0
    /\ samplenum = MaxSamples - 1
    /\ pc = "loop"

-----------------------------------------------------------------------------
\* the step read a sample
SampleStep == samplenum' # samplenum

\* the step read a sample on which the clock went from 0 to 1
RisingStep == SampleStep /\ oldsck = 0 /\ oldsck' = 1

\* C17: a sample that is not a rising clock edge (its clock equals the stored
\* one, or it is a falling edge) leaves bit_count, the accumulators, the
\* stored word-select, block_start_sample, last_word_length, samples_received
\* and every other field but prev_clock unchanged and produces no output;
\* prev_clock itself either stays or goes from 1 to 0.
C17_EdgeTrackerIsPureFilter ==
    [][ (SampleStep /\ ~RisingStep) =>
           /\ UNCHANGED <<bitcount, data_all, oldws, ss_block, first_sample, wordlength,
                          samplesreceived, wrote_wav_header, samplerate, pc, exc>>
           /\ NoOutputNext
           /\ (oldsck' = oldsck \/ (oldsck = 1 /\ oldsck' = 0))
      ]_vars

\* a falling edge read in the middle of a word that holds a 1 bit
C17_Witness ==
    /\ oldsck = 0
    /\ samplenum = 4
    /\ ss_block = 1
    /\ bitcount = 1
    /\ data_all # Zero4

-----------------------------------------------------------------------------
\* the step read a rising edge on which word-select differed from the stored one
FlipStep == RisingStep /\ nBoundary' = nBoundary + 1

\* C18: a DATA record, an annotation or a PCM write happens only on a rising
\* edge with a word-select flip while a block is open; block_start_sample
\* changes only on such flip edges; on a rising edge without a flip the word
\* state changes in the accumulators and bit_count only (bit_count by one),
\* and nothing is put or written.
C18_NoPartialWordFlushed ==
    [][ /\ (out_python' # <<>> \/ out_ann' # <<>> \/ out_binary' # <<>>
              \/ written' # <<>> \/ fout' # fout) =>
              (FlipStep /\ ss_block # None)
        /\ (ss_block' # ss_block) => FlipStep
        /\ (RisingStep /\ ~FlipStep) =>
              /\ bitcount' = bitcount + 1
              /\ UNCHANGED <<oldws, ss_block, first_sample, wordlength, samplesreceived,
                             wrote_wav_header, samplerate, pc, exc>>
              /\ NoOutputNext
      ]_vars

\* two bits shifted into an open block's word and nothing emitted yet
C18_Witness ==
    /\ oldsck = 1
    /\ ss_block = 1
    /\ bitcount = 2
    /\ data_all # Zero4
    /\ nData = 0
    /\ nBoundary = 1

-----------------------------------------------------------------------------
\* C19: every DATA record starts strictly before it ends; the first record
\* starts at first_sample, every later record starts where the record
\* before it ended; first_sample, once set, never changes.
C19_BlocksContiguous ==
    [][ /\ (out_python' # <<>>) =>
              /\ out_python'[1].ss < out_python'[1].es
              /\ (nData = 0) => out_python'[1].ss = first_sample
              /\ (nData >= 1) => out_python'[1].ss = last_es
        /\ (first_sample # None) => first_sample' = first_sample
      ]_vars

\* the second record starts at sample 3, where the first ended, while
\* first_sample still holds the first boundary
C19_Witness ==
    /\ Emitted
    /\ nData = 2
    /\ out_python[1].ss = 3
    /\ out_python[1].es = 5
    /\ first_sample = 1

-----------------------------------------------------------------------------
\* C20: the first DATA record of a decoder is tagged "R", and every later
\* record carries the tag the record before it did not carry.
C20_ChannelTagsAlternate ==
    [][ (out_python' # <<>>) =>
           /\ out_python'[1].channel \in {"L", "R"}
           /\ (nData = 0) => out_python'[1].channel = "R"
           /\ (nData >= 1) => out_python'[1].channel # last_chan
      ]_vars

\* the fourth record, tagged "L" after "R", "L", "R"
C20_Witness ==
    /\ Emitted
    /\ nData = 4
    /\ out_python[1].channel = "L"
    /\ last_chan = "L"
    /\ oldws = 0

====
